---- MODULE Spec2Model ----
(***************************************************************************)
(* The route handlers of charity-coders-api (organizations, projects,      *)
(* volunteers) as a state machine.                                         *)
(*                                                                         *)
(* A handler is a promise chain.  The statements that precede its first    *)
(* Store call touch only the request's own objects, so a request arrives  *)
(* in the step in which that call resolves; the synchronous .then          *)
(* callbacks that follow run in the same step.  A later Store call         *)
(* (document.update, document.remove) settles in a step of its own, and    *)
(* the steps of different requests interleave.  Every Store call may       *)
(* reject with an error of the database.                                   *)
(*                                                                         *)
(* lib/custom_errors, lib/error_handler and models/organization are not    *)
(* among the sources; handle404, requireOwnership, handle and the          *)
(* organization's `name` field follow the specification.  Mongoose's       *)
(* timestamps (createdAt, updatedAt) are left out.                         *)
(***************************************************************************)
EXTENDS Naturals, FiniteSets, Sequences, TLC

NumUsers == 2
MaxDocs == 2
MaxReqs == 3

Id(p, n) == p \o ToString(n)

\* ids of the users the Identity Provider knows
Users == {Id("u", n) : n \in 1..NumUsers}
\* the _id values the Store hands out, in this order
DocIds == {Id("d", n) : n \in 1..MaxDocs}
\* every well-formed ObjectId of the model
ObjectIds == Users \cup DocIds
\* a request without a valid bearer token
Anon == "anon"

Kinds == {"organization", "project", "volunteer"}
Ops == {"index", "show", "create", "update", "destroy"}

\* the String paths of each schema (all `required: true`)
SchemaFields(kind) ==
  CASE kind = "organization" -> {"name"}
    [] kind = "project" -> {"name", "type", "description", "desiredskills"}
    [] kind = "volunteer" -> {"description", "skills"}

\* routes registered with requireToken as their second argument
RequiresToken(kind, op) == ~(kind = "project" /\ op = "show")

EmptyBody == [k \in {} |-> ""]
Restrict(body, keys) == [k \in (DOMAIN body) \cap keys |-> body[k]]
Without(body, keys) == [k \in (DOMAIN body) \ keys |-> body[k]]
With(body, key, val) == [k \in (DOMAIN body) \cup {key} |-> IF k = key THEN val ELSE body[k]]

(***************************************************************************)
(* lib/custom_errors and lib/error_handler                                 *)
(***************************************************************************)

NoError == "none"

\* handle404(record): the record, or DocumentNotFoundError when it is absent
handle404(found) == IF found = {} THEN "NotFound" ELSE NoError

\* requireOwnership(req, resource): throws unless resource.owner is req.user
requireOwnership(user, resource) ==
  IF resource.owner = user THEN NoError ELSE "Forbidden"

\* handle(err, res): the status the error sink writes
handle(err) ==
  CASE err = "NotFound" -> 404
    [] err = "Forbidden" -> 401
    [] err = "ValidationError" -> 422
    [] err = "CastError" -> 400
    [] OTHER -> 500

(***************************************************************************)
(* The Store (Mongoose models)                                             *)
(***************************************************************************)

\* the schema's validation of a document handed to Model.create
Validate(kind, body) ==
  IF /\ \A f \in SchemaFields(kind) : f \in DOMAIN body /\ body[f] # ""
     /\ "owner" \in DOMAIN body
     /\ body["owner"] \in ObjectIds
  THEN NoError
  ELSE "ValidationError"

\* the document Model.create stores: the schema's paths, nothing else
NewDoc(kind, body) ==
  [kind |-> kind, owner |-> body["owner"],
   fields |-> [f \in SchemaFields(kind) |-> body[f]]]

\* casting of the paths a document.update sets
CastUpdate(kind, fields) ==
  IF "owner" \in DOMAIN fields /\ fields["owner"] \notin ObjectIds
  THEN "CastError" ELSE NoError

\* document.update(fields): sets the schema paths present in `fields`
ApplyUpdate(doc, fields) ==
  [kind |-> doc.kind,
   owner |-> IF "owner" \in DOMAIN fields THEN fields["owner"] ELSE doc.owner,
   fields |-> [f \in DOMAIN doc.fields |->
                 IF f \in DOMAIN fields THEN fields[f] ELSE doc.fields[f]]]

\* document.toObject(): what a response carries of a stored document
toObject(st, id) ==
  [id |-> id, kind |-> st[id].kind, owner |-> st[id].owner, fields |-> st[id].fields]

\* Model.find(filter) of one collection
Find(st, kind, owners) ==
  {toObject(st, i) : i \in {j \in DOMAIN st : st[j].kind = kind /\ st[j].owner \in owners}}

\* Model.findById(id) of one collection
FindById(st, kind, id) ==
  IF id \in DOMAIN st /\ st[id].kind = kind THEN {toObject(st, id)} ELSE {}

(***************************************************************************)
(* The handlers' synchronous steps                                         *)
(***************************************************************************)

\* req.body.<kind>.owner = req.user.id, or for a project
\* req.body.project.owner = req.body.project.organization_id
StampOwner(kind, user, body) ==
  IF kind = "project"
  THEN IF "organization_id" \in DOMAIN body
       THEN With(body, "owner", body["organization_id"])
       ELSE Without(body, {"owner"})
  ELSE With(body, "owner", user)

\* a handler that leaves the owner key in the body
DeleteOwner_Kept(body) == body

\* delete req.body.<kind>.owner
DeleteOwner(body) == Without(body, {"owner"})

\* a filter that leaves the empty strings in the body
DropEmpty_Kept(body) == body

\* the forEach that deletes every key whose value is ''
DropEmpty(body) == [k \in {j \in DOMAIN body : body[j] # ""} |-> body[k]]

(***************************************************************************)
(* State                                                                   *)
(*                                                                         *)
(* The statements of a handler that precede its first Store call touch    *)
(* only the request's own objects, so a request arrives in the step in     *)
(* which that first call resolves.                                         *)
(***************************************************************************)

VARIABLES
  store,   \* the stored documents, by _id
  nextId,  \* how many _id values the Store has handed out
  req,     \* the requests, by arrival order; those under way keep their data
  last,    \* the server's latest output: a response, or an unhandled rejection
  router   \* the router the behaviour follows

vars == <<store, nextId, req, last, router>>

Reqs == 1..MaxReqs

\* a request that has not arrived yet
NewReq ==
  [n |-> 0, pc |-> "new", kind |-> "", op |-> "", user |-> "", id |-> "",
   raw |-> EmptyBody, body |-> EmptyBody, loaded |-> {}, err |-> NoError,
   status |-> 0, sent |-> 0, out |-> {}, mut |-> "none", event |-> "none"]

\* a request whose promise chains have all settled
Retired == [NewReq EXCEPT !.pc = "retired"]

Init ==
  /\ store = << >>
  /\ nextId = 0
  /\ req = [r \in Reqs |-> NewReq]
  /\ last = NewReq
  \* the routers share no state: each reads and writes its own collection only,
  \* so the server's behaviour is three independent behaviours, one per router
  /\ router \in Kinds

\* res.status(status).json(out) / res.sendStatus(status): one response written
Respond(rec, status, out) ==
  [rec EXCEPT !.pc = "done", !.status = status, !.sent = @ + 1, !.out = out,
              !.event = "response"]

\* a call of requireOwnership that was left out of the handler
CheckOwner_Skipped(user, found) == NoError

\* requireOwnership(req, <the document findById resolved to>)
CheckOwner(user, found) == requireOwnership(user, CHOOSE d \in found : TRUE)

\* .catch(err => handle(err, res))
Catch(rec, err) == Respond([rec EXCEPT !.err = err], handle(err), {})

\* the next request to arrive is r
Arrives(r) ==
  /\ req[r].pc = "new" /\ (IF r = 1 THEN TRUE ELSE req[r - 1].pc # "new")
  /\ UNCHANGED router

\* the request as Express hands it to the route
Arrive(r, kind, op, user, id, raw) ==
  [NewReq EXCEPT !.n = r, !.kind = kind, !.op = op, !.user = user, !.id = id,
                 !.raw = raw, !.body = raw]

(***************************************************************************)
(* Inputs                                                                  *)
(***************************************************************************)

Vals == {"a", "b"}

Callers == Users \cup {Anon}

IdParams(kind, op) ==
  IF kind = "project" /\ op = "show" THEN ObjectIds ELSE DocIds

\* a body with every schema field set to v
Filled(kind, v) == [f \in SchemaFields(kind) |-> v]

\* the same body with and without a client-supplied owner
OwnerKeys(b) == {b} \cup {With(b, "owner", o) : o \in Users \cup {""}}

\* the organization references a client may send with a project
OrgRefs(kind) == IF kind = "project" THEN ObjectIds ELSE {}

WithOrg(kind, b, o) == IF kind = "project" THEN With(b, "organization_id", o) ELSE b

\* bodies every required field of which is set
ValidBodies(kind) ==
  IF kind = "project"
  THEN {WithOrg(kind, Filled(kind, v), o) : v \in Vals, o \in OrgRefs(kind)}
  ELSE {Filled(kind, v) : v \in Vals}

\* the keys a valid body of POST /<kind> carries
RequiredKeys(kind) ==
  SchemaFields(kind) \cup (IF kind = "project" THEN {"organization_id"} ELSE {})

\* bodies with one required key missing or empty
InvalidBodies(kind) ==
  LET base == WithOrg(kind, Filled(kind, "a"), Id("u", 1))
  IN {Without(base, {g}) : g \in RequiredKeys(kind)}
       \cup {With(base, g, "") : g \in RequiredKeys(kind)}

CreateBodies(kind) ==
  UNION {OwnerKeys(b) : b \in ValidBodies(kind)} \cup InvalidBodies(kind)

MaxPatchKeys == 1

PatchBodies(kind) ==
  UNION {UNION {OwnerKeys([k \in S |-> IF k \in E THEN "" ELSE "b"]) : E \in SUBSET S}
           : S \in {T \in SUBSET SchemaFields(kind) : Cardinality(T) <= MaxPatchKeys}}

\* a Store call resolves, or rejects with an error of the database
StoreOutcomes == {NoError, "Error"}

(***************************************************************************)
(* The routes                                                              *)
(***************************************************************************)

\* passport.authenticate('bearer') answers 401 itself; the handler never runs
Unauthorized(r) ==
  /\ Arrives(r)
  /\ \E kind \in {router}, op \in Ops :
    /\ RequiresToken(kind, op)
    /\ last' = Respond(Arrive(r, kind, op, Anon, "", EmptyBody), 401, {})
    /\ req' = [req EXCEPT ![r] = Retired]
    /\ UNCHANGED <<store, nextId>>

\* GET /<kind>: Model.find(...).then(map toObject).then(200).catch(handle)
Index(r) ==
  /\ Arrives(r)
  /\ \E kind \in {router}, user \in Users, fail \in StoreOutcomes :
    LET rec == Arrive(r, kind, "index", user, "", EmptyBody)
        owners == IF kind = "organization" THEN {user} ELSE ObjectIds
    IN /\ last' = IF fail # NoError THEN Catch(rec, fail)
                  ELSE Respond(rec, 200, Find(store, kind, owners))
       /\ req' = [req EXCEPT ![r] = Retired]
       /\ UNCHANGED <<store, nextId>>

\* what Model.findById(req.params.id).then(handle404) throws, if anything
LookupError(rec, fail) ==
  IF fail # NoError THEN fail
  ELSE handle404(FindById(store, rec.kind, rec.id))

\* GET /organizations/:id, GET /volunteers/:id: findById, handle404, 200
Show(r) ==
  /\ Arrives(r)
  /\ \E kind \in {router} \ {"project"}, user \in Users, fail \in StoreOutcomes :
     \E id \in IdParams(kind, "show") :
    LET rec == Arrive(r, kind, "show", user, id, EmptyBody)
        err == LookupError(rec, fail)
        found == FindById(store, kind, id)
    IN /\ last' = IF err # NoError THEN Catch(rec, err)
                  ELSE Respond([rec EXCEPT !.loaded = found], 200, found)
       /\ req' = [req EXCEPT ![r] = Retired]
       /\ UNCHANGED <<store, nextId>>

\* GET /projects/:id: registered without requireToken; Project.find({owner: id})
ShowProject(r) ==
  /\ Arrives(r)
  /\ \E user \in Callers, id \in IdParams("project", "show"), fail \in StoreOutcomes :
    LET rec == Arrive(r, "project", "show", user, id, EmptyBody)
    IN /\ router = "project"
       /\ last' = IF fail # NoError THEN Catch(rec, fail)
                  ELSE Respond(rec, 200, Find(store, "project", {id}))
       /\ req' = [req EXCEPT ![r] = Retired]
       /\ UNCHANGED <<store, nextId>>

\* POST /<kind>: the owner is stamped, Model.create, 201
Create(r) ==
  /\ Arrives(r)
  /\ \E kind \in {router}, user \in Users, fail \in StoreOutcomes :
     \E raw \in CreateBodies(kind) :
    LET rec == [Arrive(r, kind, "create", user, "", raw)
                  EXCEPT !.body = StampOwner(kind, user, raw)]
        err == IF fail # NoError THEN fail ELSE Validate(kind, rec.body)
        id == Id("d", nextId + 1)
        st == [i \in DOMAIN store \cup {id} |->
                 IF i = id THEN NewDoc(kind, rec.body) ELSE store[i]]
    IN /\ req' = [req EXCEPT ![r] = Retired]
       /\ IF err # NoError
          THEN /\ last' = Catch(rec, err)
               /\ UNCHANGED <<store, nextId>>
          ELSE /\ nextId < MaxDocs
               /\ store' = st
               /\ nextId' = nextId + 1
               /\ last' = Respond(rec, 201, {toObject(st, id)})

\* PATCH /<kind>/:id: the owner key is deleted, findById, handle404,
\* requireOwnership, the filter of empty strings, the call of document.update
Update(r) ==
  /\ Arrives(r)
  /\ \E kind \in {router}, user \in Users, fail \in StoreOutcomes :
     \E id \in IdParams(kind, "update"), raw \in PatchBodies(kind) :
    LET rec == [Arrive(r, kind, "update", user, id, raw) EXCEPT !.body = DeleteOwner(raw)]
        err == LookupError(rec, fail)
        found == FindById(store, kind, id)
        got == [rec EXCEPT !.loaded = found]
        own == CheckOwner(user, found)
    IN /\ UNCHANGED <<store, nextId>>
       /\ IF err # NoError
          THEN last' = Catch(rec, err) /\ req' = [req EXCEPT ![r] = Retired]
          ELSE IF own # NoError
          THEN last' = Catch(got, own) /\ req' = [req EXCEPT ![r] = Retired]
          ELSE /\ req' = [req EXCEPT ![r] =
                            [got EXCEPT !.pc = "update", !.body = DropEmpty(rec.body),
                                        !.mut = "pending"]]
               /\ UNCHANGED last

\* PATCH /<kind>/:id: document.update settles; 204, or the error is handled
UpdateDone(r) ==
  \E fail \in StoreOutcomes :
    LET rec == req[r]
        err == IF fail # NoError THEN fail ELSE CastUpdate(rec.kind, rec.body)
    IN /\ rec.pc = "update"
       /\ UNCHANGED router
       /\ req' = [req EXCEPT ![r] = Retired]
       /\ UNCHANGED nextId
       /\ IF err # NoError
          THEN /\ last' = Catch([rec EXCEPT !.mut = "failed"], err)
               /\ UNCHANGED store
          ELSE /\ store' = [i \in DOMAIN store |->
                              IF i = rec.id THEN ApplyUpdate(store[i], rec.body)
                              ELSE store[i]]
               /\ last' = Respond([rec EXCEPT !.mut = "applied"], 204, {})

\* DELETE /<kind>/:id: findById, handle404, requireOwnership, the call of
\* document.remove (its promise is dropped), and the next .then: 204
Destroy(r) ==
  /\ Arrives(r)
  /\ \E kind \in {router}, user \in Users, fail \in StoreOutcomes :
     \E id \in IdParams(kind, "destroy") :
    LET rec == Arrive(r, kind, "destroy", user, id, EmptyBody)
        err == LookupError(rec, fail)
        found == FindById(store, kind, id)
        got == [rec EXCEPT !.loaded = found]
        own == CheckOwner(user, found)
    IN /\ UNCHANGED <<store, nextId>>
       /\ IF err # NoError
          THEN last' = Catch(rec, err) /\ req' = [req EXCEPT ![r] = Retired]
          ELSE IF own # NoError
          THEN last' = Catch(got, own) /\ req' = [req EXCEPT ![r] = Retired]
          ELSE /\ last' = Respond([got EXCEPT !.mut = "pending"], 204, {})
               /\ req' = [req EXCEPT ![r] =
                            [Respond([got EXCEPT !.mut = "pending"], 204, {})
                               EXCEPT !.pc = "remove"]]

\* a remove whose rejection reaches the handler's .catch after the 204
RemoveDone_Caught(r) ==
  \E fail \in StoreOutcomes :
    LET rec == req[r]
    IN /\ rec.pc = "remove"
       /\ UNCHANGED router
       /\ req' = [req EXCEPT ![r] = Retired]
       /\ UNCHANGED nextId
       /\ IF fail # NoError
          THEN /\ last' = Catch([rec EXCEPT !.mut = "failed"], fail)
               /\ UNCHANGED store
          ELSE /\ store' = [i \in DOMAIN store \ {rec.id} |-> store[i]]
               /\ UNCHANGED last

\* document.remove settles; nothing is chained on its promise
RemoveDone(r) ==
  \E fail \in StoreOutcomes :
    LET rec == req[r]
    IN /\ rec.pc = "remove"
       /\ UNCHANGED router
       /\ req' = [req EXCEPT ![r] = Retired]
       /\ UNCHANGED nextId
       /\ IF fail # NoError
          THEN /\ last' = [rec EXCEPT !.pc = "done", !.mut = "failed",
                                      !.event = "unhandledRejection"]
               /\ UNCHANGED store
          ELSE /\ store' = [i \in DOMAIN store \ {rec.id} |-> store[i]]
               /\ UNCHANGED last

Next ==
  \E r \in Reqs :
    \/ Unauthorized(r)
    \/ Index(r)
    \/ Show(r)
    \/ ShowProject(r)
    \/ Create(r)
    \/ Update(r)
    \/ UpdateDone(r)
    \/ Destroy(r)
    \/ RemoveDone(r)

Spec == Init /\ [][Next]_vars

(***************************************************************************)
(* Properties                                                              *)
(***************************************************************************)

Answered == last.event = "response"

\* the latest response answers a PATCH or DELETE that loaded its resource
Mutating == Answered /\ last.op \in {"update", "destroy"} /\ last.loaded # {}

\* passport turned the request away
TurnedAway(rec) == rec.user = Anon /\ RequiresToken(rec.kind, rec.op)

\* C1: every stored resource has an owner X who is a caller: a PATCH or DELETE
\* on it by a caller other than X is answered 401, and by the caller X it
\* succeeds with 204 (unless the Store rejects the update)
C1_OwnerMutates ==
  Mutating =>
    \A d \in last.loaded :
      /\ d.owner \in Users
      /\ last.user # d.owner => last.status = 401
      /\ last.user = d.owner => last.status = 204 \/ last.mut = "failed"

\* C2: a show, update or delete whose id resolves to no stored document is
\* answered 404
C2_NotFound ==
  [][(/\ last'.event = "response"
      /\ last'.op \in {"show", "update", "destroy"}
      /\ req[last'.n].pc = "new"
      /\ ~TurnedAway(last')
      /\ last'.err # "Error"
      /\ FindById(store, last'.kind, last'.id) = {})
     => last'.status = 404]_vars

\* C3: a request without a valid token is answered 401 and receives no data
C3_Authenticated ==
  (Answered /\ last.user = Anon) => (last.status = 401 /\ last.out = {})

\* C4: no step changes the owner of a stored resource
C4_OwnerImmutable ==
  [][\A i \in DOMAIN store \cap DOMAIN store' : store'[i].owner = store[i].owner]_vars

\* a PATCH whose body named another user as owner was applied, the owner stayed
C4_Witness ==
  /\ Answered /\ last.op = "update" /\ last.status = 204
  /\ "owner" \in DOMAIN last.raw
  /\ last.raw["owner"] \in Users \ {last.user}
  /\ last.id \in DOMAIN store
  /\ store[last.id].owner = last.user

\* the stored document after a PATCH with body `raw`: the fields sent with a
\* non-empty value are replaced, nothing else
Patched(doc, raw) ==
  [kind |-> doc.kind, owner |-> doc.owner,
   fields |-> [f \in DOMAIN doc.fields |->
                 IF f \in DOMAIN raw /\ raw[f] # "" THEN raw[f] ELSE doc.fields[f]]]

C6_RoundTrip ==
  [][(/\ Answered /\ last.op = "create" /\ last.status = 201
      /\ last'.event = "response" /\ last'.op = "show" /\ last'.n # last.n
      /\ last'.err # "Error"
      /\ \E d \in last.out : d.id = last'.id)
     => /\ last'.status = 200
        /\ last'.out =
             {[id |-> last'.id, kind |-> last.kind,
               owner |-> IF last.kind = "project" THEN last.raw["organization_id"]
                         ELSE last.user,
               fields |-> Restrict(last.raw, SchemaFields(last.kind))]}]_vars

\* C7: a request whose Store mutation failed is not answered 204
C7_FailureHandled == last.mut = "failed" => last.status # 204

\* C8: a request is answered once: not before its Store calls settle (a DELETE:
\* when remove has been called), and never a second time
C8_OneResponse ==
  /\ last.event # "none" => last.sent = 1
  /\ \A r \in Reqs :
       /\ req[r].pc = "update" => req[r].sent = 0
       /\ req[r].pc = "remove" => req[r].sent = 1

\* the remove of an answered DELETE was rejected and no second response followed
C8_Witness == last.event = "unhandledRejection" /\ last.sent = 1 /\ last.status = 204

\* C9: a resource whose DELETE was answered 204 is no longer stored
C9_DeletedIsGone ==
  (Answered /\ last.op = "destroy" /\ last.status = 204) => last.id \notin DOMAIN store

\* C10: a stored resource is changed or removed only by a settling update or
\* remove of a request that loaded it and whose caller is its owner, and the
\* step that answers 404 or 401 leaves the Store as it was
C10_OnlyOwnerMutates ==
  [][(\A i \in DOMAIN store :
        (i \notin DOMAIN store' \/ store'[i] # store[i]) =>
          (\E r \in Reqs :
             /\ req[r].pc \in {"update", "remove"} /\ req'[r].pc = "retired"
             /\ req[r].id = i /\ req[r].kind = store[i].kind
             /\ req[r].loaded # {}
             /\ req[r].user = store[i].owner))
     /\ ((last'.n # last.n /\ last'.status \in {401, 404}) => store' = store)]_vars

\* a caller who is not the owner was answered 401 while the owner's own update
\* or remove of the same resource was under way
C10_Witness ==
  /\ Mutating /\ last.status = 401
  /\ \E r \in Reqs : req[r].pc \in {"update", "remove"} /\ req[r].id = last.id

====
